---- MODULE Spec2Model ----
(***************************************************************************)
(* Model of src/src/services/docxConverter.ts: the markdown-to-docx        *)
(* conversion (section split on the custom break marker, per-section token *)
(* walk with blank-run collapsing and list numbering, inline formatting,   *)
(* assembly and hand-off to the renderer).                                 *)
(*                                                                         *)
(* Text is a sequence of one-character strings.  The tokenizer             *)
(* (marked.lexer) and the renderer (Packer.toBuffer) are external: what    *)
(* they return is an input of the action that calls them.                  *)
(***************************************************************************)
EXTENDS Integers, Sequences, FiniteSets, TLC

VARIABLES
  ownOptions,        \* the build: a TextRun object holds its options as own properties
  sections,          \* per call: markdownContent.split(CUSTOM_PARAGRAPH_BREAK)
  pc,                \* per call: position in convertMarkdownToDocx
  sectionIndex,      \* per call: the section loop's index (0-based, as in the code)
  allChildren,       \* per call: blocks of the whole document
  tokens,            \* per call: marked.lexer's result for the current section
  tokenIndex,        \* per call: position of the token loop (1-based)
  children,          \* per call: blocks of the current section
  lastTokenType,     \* per call
  consecutiveBreaks, \* per call
  listCounter,       \* the list counter cells (one per scope)
  lexed,             \* per call: what was passed to / returned by the tokenizer
  childSrc,          \* per call: for each block of children, the token it came from
  allSrc,            \* per call: for each block of allChildren, <<section, token>>
  numberingConfigs,  \* per call: references of the numbering set of the document
  raised,            \* per call: the error the tokenizer or the renderer raised
  result,            \* per call: the returned buffer, or the error thrown
  text,              \* inline formatter: the block text given to processFormattedText
  fmtDone,           \* inline formatter: processFormattedText has returned
  runs               \* inline formatter: the runs it returned

vars == <<ownOptions, sections, pc, sectionIndex, allChildren, tokens, tokenIndex, children,
          lastTokenType, consecutiveBreaks, listCounter, lexed, childSrc, allSrc,
          numberingConfigs, raised, result, text, fmtDone, runs>>

(***************************************************************************)
(* Bounds of the model.                                                    *)
(***************************************************************************)
MaxSections == 3      \* sections of one document (break markers + 1)
MaxDocTokens == 3     \* tokens the tokenizer returns over one document
MaxTextLen == 4       \* length of a text given to the inline formatter
MaxConcTokens == 2    \* tokens of one document when two calls are interleaved

(***************************************************************************)
(* Sequence helpers.                                                       *)
(***************************************************************************)
RECURSIVE SeqsUpTo(_, _)
SeqsUpTo(S, n) ==
  IF n = 0 THEN {<<>>}
  ELSE LET shorter == SeqsUpTo(S, n - 1)
       IN shorter \cup {Append(s, x) : s \in {t \in shorter : Len(t) = n - 1}, x \in S}

IsPrefix(s, t) == Len(s) <= Len(t) /\ SubSeq(t, 1, Len(s)) = s

(***************************************************************************)
(* String primitives used by the code.                                     *)
(***************************************************************************)
\* Characters a string of this module cannot hold, each written as a name:
\* line tabulation, no-break space, the other space separators, line
\* separator, paragraph separator, byte order mark.
VT == "u000b"
NBSP == "u00a0"
OtherSpaces ==
  {"u1680", "u2000", "u2001", "u2002", "u2003", "u2004", "u2005", "u2006",
   "u2007", "u2008", "u2009", "u200a", "u202f", "u205f", "u3000"}
LS == "u2028"
PS == "u2029"
BOM == "ufeff"

\* the line terminators of the language: what the dot of a pattern refuses
LineTerminators == {"\n", "\r", LS, PS}

\* what String.prototype.trim strips: white space and line terminators
WhiteSpace ==
  {" ", "\t", VT, "\f", NBSP, BOM} \cup OtherSpaces \cup LineTerminators

RECURSIVE TrimStart(_)
TrimStart(s) ==
  IF s # <<>> /\ Head(s) \in WhiteSpace THEN TrimStart(Tail(s)) ELSE s

RECURSIVE TrimEnd(_)
TrimEnd(s) ==
  IF s # <<>> /\ s[Len(s)] \in WhiteSpace THEN TrimEnd(SubSeq(s, 1, Len(s) - 1)) ELSE s

\* String.prototype.trim
Trim(s) == TrimEnd(TrimStart(s))

\* part.slice(a, -b)
Slice(s, a, b) == SubSeq(s, a + 1, Len(s) - b)

StartsWith(s, p) == Len(p) <= Len(s) /\ SubSeq(s, 1, Len(p)) = p

EndsWith(s, p) == Len(p) <= Len(s) /\ SubSeq(s, Len(s) - Len(p) + 1, Len(s)) = p

\* text.split on the newline character: always at least one line
RECURSIVE SplitLines(_, _)
SplitLines(s, line) ==
  IF s = <<>> THEN <<line>>
  ELSE IF Head(s) = "\n" THEN <<line>> \o SplitLines(Tail(s), <<>>)
  ELSE SplitLines(Tail(s), Append(line, Head(s)))

(***************************************************************************)
(* Inline formatter: processFormattedText.                                 *)
(***************************************************************************)
Star == "*"
\* the backquote character (U+0060), which a string of this module cannot hold
Tick == "tick"

\* How a lazy body of dots followed by the literal p finds its end: the
\* smallest j >= i at which p occurs in s, provided no character of the body
\* s[i..j-1] is a line terminator, which the dot does not match; 0 otherwise.
FindFrom(s, i, p) ==
  LET hits == {j \in i..(Len(s) - Len(p) + 1) : SubSeq(s, j, j + Len(p) - 1) = p}
      first == CHOOSE j \in hits : \A k \in hits : j <= k
  IN IF hits = {} THEN 0
     ELSE IF \E k \in i..(first - 1) : s[k] \in LineTerminators THEN 0
     ELSE first

\* The pattern of line.split (bold span, else italic span, else backtick
\* span, each with a lazy body) tried at position i: the index of the last
\* character of the match, 0 if the pattern does not match at i.  The
\* alternatives are tried in order.
MatchEnd(s, i) ==
  LET bold == IF StartsWith(SubSeq(s, i, Len(s)), <<Star, Star>>)
              THEN FindFrom(s, i + 2, <<Star, Star>>) ELSE 0
      ital == IF s[i] = Star THEN FindFrom(s, i + 1, <<Star>>) ELSE 0
      mono == IF s[i] = Tick THEN FindFrom(s, i + 1, <<Tick>>) ELSE 0
  IN IF bold > 0 THEN bold + 1
     ELSE IF ital > 0 THEN ital
     ELSE mono

\* line.split(regex) with one capturing group: the text before each match
\* (possibly empty), the match, ..., and the text after the last match.
RECURSIVE SplitParts(_, _, _)
SplitParts(s, i, p) ==
  IF i > Len(s) THEN <<SubSeq(s, p, Len(s))>>
  ELSE LET e == MatchEnd(s, i)
       IN IF e > 0
          THEN <<SubSeq(s, p, i - 1), SubSeq(s, i, e)>> \o SplitParts(s, e + 1, e + 1)
          ELSE SplitParts(s, i + 1, p)

\* parts.filter: the empty parts are dropped
FilterEmpty(parts) == SelectSeq(parts, LAMBDA part : part # <<>>)

TextRun(t, b, i, f, sz, br) ==
  [text |-> t, bold |-> b, italics |-> i, font |-> f, size |-> sz, break |-> br]

\* the map callback of processFormattedText
PartRun(part) ==
  IF StartsWith(part, <<Star, Star>>) /\ EndsWith(part, <<Star, Star>>)
  THEN TextRun(Slice(part, 2, 2), TRUE, FALSE, "New Times Roman", 24, 0)
  ELSE IF StartsWith(part, <<Star>>) /\ EndsWith(part, <<Star>>)
          /\ ~StartsWith(part, <<Star, Star>>)
  THEN TextRun(Slice(part, 1, 1), FALSE, TRUE, "New Times Roman", 24, 0)
  ELSE IF StartsWith(part, <<Tick>>) /\ EndsWith(part, <<Tick>>)
  THEN TextRun(Slice(part, 1, 1), FALSE, FALSE, "Courier New", 24, 0)
  ELSE TextRun(part, FALSE, FALSE, "New Times Roman", 24, 0)

LineRuns(line) ==
  LET parts == FilterEmpty(SplitParts(line, 1, 1))
  IN [k \in 1..Len(parts) |-> PartRun(parts[k])]

BreakRun == TextRun(<<>>, FALSE, FALSE, "New Times Roman", 24, 1)

BreakAfterEveryLine(lineIndex, n) == lineIndex < n

\* lineIndex < lines.length - 1 (lineIndex 0-based)
BreakAfterLine(lineIndex, n) == lineIndex < n - 1

RECURSIVE AllRuns(_, _)
AllRuns(lines, k) ==
  IF k > Len(lines) THEN <<>>
  ELSE LineRuns(lines[k])
       \o (IF BreakAfterLine(k - 1, Len(lines)) THEN <<BreakRun>> ELSE <<>>)
       \o AllRuns(lines, k + 1)

processFormattedText(t) == AllRuns(SplitLines(t, <<>>), 1)

(***************************************************************************)
(* Tokens of the tokenizer (marked), as the code reads them.               *)
(***************************************************************************)
HeadingToken(d, t) == [type |-> "heading", depth |-> d, text |-> t]
ParagraphToken(t) == [type |-> "paragraph", text |-> t]
ListToken(o, its) == [type |-> "list", ordered |-> o, items |-> its]
ListItemToken(t) == [type |-> "list_item", text |-> t]
BlockquoteToken(toks) == [type |-> "blockquote", tokens |-> toks]
CodeToken(t) == [type |-> "code", text |-> t]
HrToken == [type |-> "hr"]
TableToken(h, rs) == [type |-> "table", header |-> h, rows |-> rs]
TableCellToken(t) == [text |-> t]
SpaceToken == [type |-> "space"]
\* kinds the switch has no case for
HtmlToken == [type |-> "html"]
DefToken == [type |-> "def"]

HandledTypes ==
  {"heading", "paragraph", "list", "blockquote", "code", "hr", "table", "space"}

(***************************************************************************)
(* Blocks: the Paragraph objects the code builds.  kind names the case     *)
(* that built the block; the other fields are the options it was given.    *)
(***************************************************************************)
NoRef == <<>>

Paragraph(k, t, h, kids, num, bul, bef, aft) ==
  [kind |-> k, text |-> t, heading |-> h, children |-> kids, numbering |-> num,
   bullet |-> bul, before |-> bef, after |-> aft]

EmptyRun == TextRun(<<>>, FALSE, FALSE, "New Times Roman", 24, 0)

\* the spacer of a run of blank tokens
BlankSpacer == Paragraph("Spacer", <<>>, 0, <<>>, NoRef, FALSE, 80, 80)

\* the spacer of an empty section and the spacer between two sections
SectionSpacer == Paragraph("Spacer", <<>>, 0, <<EmptyRun>>, NoRef, FALSE, 120, 120)

\* a depth outside 1..6 has no entry
headingLevelMap(depth) ==
  IF depth \in 1..6 THEN <<"HeadingLevel.HEADING", depth>> ELSE <<"undefined">>

\* the template string of the numbering reference
NumberingRef(n) == <<"list-", n>>

HeadingBlock(tok) ==
  Paragraph("Heading", tok.text, headingLevelMap(tok.depth), <<>>, NoRef, FALSE, 200, 100)

TextBlock(tok) ==
  Paragraph("TextBlock", <<>>, 0, processFormattedText(tok.text), NoRef, FALSE, 60, 60)

ItemBeforeFlat(isFirstItem) == 40

\* spacing.before of a list item: isFirstItem ? 80 : 40
ItemBefore(isFirstItem) == IF isFirstItem THEN 80 ELSE 40

ListBlocks(tok, numberingRef) ==
  [k \in 1..Len(tok.items) |->
     Paragraph("ListItem", <<>>, 0, processFormattedText(tok.items[k].text),
               IF tok.ordered THEN numberingRef ELSE NoRef, ~tok.ordered,
               ItemBefore(k = 1), 40)]

QuoteBlock(tok) ==
  Paragraph("Quote", <<>>, 0, processFormattedText(tok.text), NoRef, FALSE, 60, 60)

QuoteBlocksAll(tok) ==
  [k \in 1..Len(tok.tokens) |->
     Paragraph("Quote", <<>>, 0, <<>>, NoRef, FALSE, 60, 60)]

\* one Quote block per nested token of type paragraph
QuoteBlocks(tok) ==
  LET paras == SelectSeq(tok.tokens, LAMBDA q : q.type = "paragraph")
  IN [k \in 1..Len(paras) |-> QuoteBlock(paras[k])]

\* new TextRun({ ...run, font: 'Courier New', size: 20 }) for each run of the
\* text.  The spread copies the own enumerable properties of the TextRun
\* object run, and which they are is decided by the docx library of the
\* build.  own = TRUE: the options the run was built from are own properties
\* and the new run keeps its text, bold, italics and break.  own = FALSE:
\* they are not, and the new run has the font and the size and nothing else.
CodeRunsWith(t, own) ==
  LET rs == processFormattedText(t)
  IN [k \in 1..Len(rs) |->
        IF own THEN [rs[k] EXCEPT !.font = "Courier New", !.size = 20]
        ELSE TextRun(<<>>, FALSE, FALSE, "Courier New", 20, 0)]

CodeRuns(t) == CodeRunsWith(t, ownOptions)

CodeBlock(tok) ==
  Paragraph("Code", <<>>, 0, CodeRuns(tok.text), NoRef, FALSE, 80, 80)

RuleBlock == Paragraph("Rule", <<>>, 0, <<>>, NoRef, FALSE, 120, 120)

TableCell(cell, shade) ==
  [children |-> processFormattedText(cell.text), before |-> 40, after |-> 40,
   shading |-> shade]

TableRow(row, shade) == [k \in 1..Len(row) |-> TableCell(row[k], shade)]

TableRowsReversed(tok) ==
  <<TableRow(tok.header, "EEEEEE")>>
  \o [k \in 1..Len(tok.rows) |-> TableRow(tok.rows[Len(tok.rows) + 1 - k], "")]

\* rows: the header row, then one row per body row of the token
TableRows(tok) ==
  <<TableRow(tok.header, "EEEEEE")>>
  \o [k \in 1..Len(tok.rows) |-> TableRow(tok.rows[k], "")]

TableBlock(tok) ==
  Paragraph("Table", <<>>, 0, <<[rows |-> TableRows(tok), width |-> 100]>>,
            NoRef, FALSE, 0, 0)

(***************************************************************************)
(* One iteration of the token loop on the section's state                  *)
(* st = [children, lastTokenType, consecutiveBreaks, listCounter].         *)
(***************************************************************************)
\* lastTokenType is null, written <<>>, or a token type, written <<type>>
Null == <<>>

LastType(type) == <<type>>

SectionStart ==
  [children |-> <<>>, lastTokenType |-> Null, consecutiveBreaks |-> 0,
   listCounter |-> 0]

TypeChangedOrSame(last, type) == last # Null /\ last # LastType("")

\* if (lastTokenType && lastTokenType !== token.type): null and the empty
\* string are falsy
TypeChanged(last, type) ==
  last # Null /\ last # LastType("") /\ last # LastType(type)

SpacerAllowedStrict(breaks) == breaks < 1

\* if (consecutiveBreaks <= 1), read after the increment
SpacerAllowed(breaks) == breaks <= 1

\* the transition rule that precedes the switch
Transition(st, tok) ==
  IF TypeChanged(st.lastTokenType, tok.type)
  THEN IF tok.type = "space"
       THEN [st EXCEPT !.consecutiveBreaks = @ + 1,
                       !.children = IF SpacerAllowed(st.consecutiveBreaks + 1)
                                    THEN Append(@, BlankSpacer) ELSE @]
       ELSE [st EXCEPT !.consecutiveBreaks = 0]
  ELSE st

ListCounterAfterAny(ordered, n) == n + 1

\* listCounter++, evaluated only for an ordered list
ListCounterAfter(ordered, n) == IF ordered THEN n + 1 ELSE n

DefaultCaseEmits(st) ==
  [st EXCEPT !.consecutiveBreaks = 0, !.children = Append(@, BlankSpacer)]

\* the default case of the switch: a diagnostic is logged, nothing is emitted
DefaultCase(st) == [st EXCEPT !.consecutiveBreaks = 0]

\* the switch on token.type
Switch(st, tok) ==
  CASE tok.type = "heading" ->
         [st EXCEPT !.consecutiveBreaks = 0, !.children = Append(@, HeadingBlock(tok))]
    [] tok.type = "paragraph" ->
         [st EXCEPT !.consecutiveBreaks = 0, !.children = Append(@, TextBlock(tok))]
    [] tok.type = "list" ->
         [st EXCEPT !.consecutiveBreaks = 0,
                    !.listCounter = ListCounterAfter(tok.ordered, @),
                    !.children = @ \o ListBlocks(tok, NumberingRef(st.listCounter))]
    [] tok.type = "blockquote" ->
         [st EXCEPT !.consecutiveBreaks = 0, !.children = @ \o QuoteBlocks(tok)]
    [] tok.type = "code" ->
         [st EXCEPT !.consecutiveBreaks = 0, !.children = Append(@, CodeBlock(tok))]
    [] tok.type = "hr" ->
         [st EXCEPT !.consecutiveBreaks = 0, !.children = Append(@, RuleBlock)]
    [] tok.type = "table" ->
         [st EXCEPT !.consecutiveBreaks = 0, !.children = Append(@, TableBlock(tok))]
    [] tok.type = "space" -> st
    [] OTHER -> DefaultCase(st)

\* the body of the token loop
TokenStep(st, tok) ==
  [Switch(Transition(st, tok), tok) EXCEPT !.lastTokenType = LastType(tok.type)]

RECURSIVE TranslateFrom(_, _)
TranslateFrom(st, toks) ==
  IF toks = <<>> THEN st ELSE TranslateFrom(TokenStep(st, Head(toks)), Tail(toks))

\* the blocks of one section: the token loop run to its end
TranslateSection(toks) == TranslateFrom(SectionStart, toks).children

(***************************************************************************)
(* convertMarkdownToDocx, one step at a time.  c is an invocation.         *)
(***************************************************************************)
PoolSize == 100

\* section.trim() === ''
IsBlank(section) == Trim(section) = <<>>

EmptySectionSpacerAlways(idx) == idx >= 0

\* if (sectionIndex > 0), in the empty-section branch
EmptySectionSpacer(idx) == idx > 0

SeparatorAfterEvery(idx, n) == idx < n

\* if (sectionIndex < sections.length - 1), after a section's blocks
SeparatorAfter(idx, n) == idx < n - 1

PushFront(seq, items) == items \o seq

\* Array.prototype.push(...items)
Push(seq, items) == seq \o items

SharedScope(c) == 1

\* The variables declared inside the function body belong to the invocation.
Scope(c) == c

CatchAndReturn(error, partial) == [status |-> "buffer", value |-> partial]

\* The catch clause: log and rethrow.
Catch(error, partial) == [status |-> "error", value |-> error]

\* Packer.toBuffer(doc): the buffer stands for the document it serialises.
Pack(blocks, numbering) ==
  [status |-> "buffer", value |-> [children |-> blocks, numbering |-> numbering]]

NoResult == [status |-> "none", value |-> <<>>]
NoError == <<>>

CurrentSection(c) == sections[c][sectionIndex[c] + 1]

TokensUsed(c) ==
  LET RECURSIVE Sum(_)
      Sum(k) == IF k = 0 THEN 0 ELSE Len(lexed[c][k].tokens) + Sum(k - 1)
  IN Sum(Len(lexed[c]))

Locals(c) ==
  [children |-> children[Scope(c)], lastTokenType |-> lastTokenType[Scope(c)],
   consecutiveBreaks |-> consecutiveBreaks[Scope(c)],
   listCounter |-> listCounter[Scope(c)]]

SetLocals(c, st) ==
  /\ children' = [children EXCEPT ![Scope(c)] = st.children]
  /\ lastTokenType' = [lastTokenType EXCEPT ![Scope(c)] = st.lastTokenType]
  /\ consecutiveBreaks' = [consecutiveBreaks EXCEPT ![Scope(c)] = st.consecutiveBreaks]
  /\ listCounter' = [listCounter EXCEPT ![Scope(c)] = st.listCounter]

Throw(c, error) ==
  /\ raised' = [raised EXCEPT ![c] = error]
  /\ result' = [result EXCEPT ![c] = Catch(error, Pack(allChildren[c], <<>>).value)]
  /\ pc' = [pc EXCEPT ![c] = IF result'[c].status = "error" THEN "thrown" ELSE "returned"]

\* An empty or whitespace-only section: at most a spacer, then continue.
SkipEmptySection(c) ==
  /\ pc[c] = "section"
  /\ sectionIndex[c] < Len(sections[c])
  /\ IsBlank(CurrentSection(c))
  /\ allChildren' = [allChildren EXCEPT ![c] =
                       IF EmptySectionSpacer(sectionIndex[c])
                       THEN Push(@, <<SectionSpacer>>) ELSE @]
  /\ allSrc' = [allSrc EXCEPT ![c] =
                  IF EmptySectionSpacer(sectionIndex[c])
                  THEN Push(@, <<<<sectionIndex[c], 0>>>>) ELSE @]
  /\ sectionIndex' = [sectionIndex EXCEPT ![c] = @ + 1]
  /\ UNCHANGED <<ownOptions, sections, pc, tokens, tokenIndex, children, lastTokenType,
                 consecutiveBreaks, listCounter, lexed, childSrc, numberingConfigs,
                 raised, result, text, fmtDone, runs>>

\* marked.lexer(section.trim()) returns toks, possibly none, the token lists of
\* the call holding at most budget tokens in all; the section's locals are
\* declared.
LexSection(c, pool, budget) ==
  /\ pc[c] = "section"
  /\ sectionIndex[c] < Len(sections[c])
  /\ ~IsBlank(CurrentSection(c))
  /\ \E toks \in SeqsUpTo(pool, budget - TokensUsed(c)) :
       /\ tokens' = [tokens EXCEPT ![c] = toks]
       /\ lexed' = [lexed EXCEPT ![c] =
                      Append(@, [section |-> sectionIndex[c],
                                 src |-> Trim(CurrentSection(c)), tokens |-> toks])]
  /\ tokenIndex' = [tokenIndex EXCEPT ![c] = 1]
  /\ SetLocals(c, SectionStart)
  /\ childSrc' = [childSrc EXCEPT ![c] = <<>>]
  /\ pc' = [pc EXCEPT ![c] = "tokens"]
  /\ UNCHANGED <<ownOptions, sections, sectionIndex, allChildren, allSrc, numberingConfigs,
                 raised, result, text, fmtDone, runs>>

\* The same call of marked.lexer, its result drawn from a given set of token
\* sequences.
LexSectionFrom(c, seqs) ==
  /\ pc[c] = "section"
  /\ sectionIndex[c] < Len(sections[c])
  /\ ~IsBlank(CurrentSection(c))
  /\ \E toks \in seqs :
       /\ tokens' = [tokens EXCEPT ![c] = toks]
       /\ lexed' = [lexed EXCEPT ![c] =
                      Append(@, [section |-> sectionIndex[c],
                                 src |-> Trim(CurrentSection(c)), tokens |-> toks])]
  /\ tokenIndex' = [tokenIndex EXCEPT ![c] = 1]
  /\ SetLocals(c, SectionStart)
  /\ childSrc' = [childSrc EXCEPT ![c] = <<>>]
  /\ pc' = [pc EXCEPT ![c] = "tokens"]
  /\ UNCHANGED <<ownOptions, sections, sectionIndex, allChildren, allSrc, numberingConfigs,
                 raised, result, text, fmtDone, runs>>

\* marked.lexer raises: the catch clause rethrows.
LexThrows(c) ==
  /\ pc[c] = "section"
  /\ sectionIndex[c] < Len(sections[c])
  /\ ~IsBlank(CurrentSection(c))
  /\ Throw(c, <<"lexer", sectionIndex[c]>>)
  /\ UNCHANGED <<ownOptions, sections, sectionIndex, allChildren, tokens, tokenIndex, children,
                 lastTokenType, consecutiveBreaks, listCounter, lexed, childSrc,
                 allSrc, numberingConfigs, text, fmtDone, runs>>

\* One iteration of for (const token of tokens).
ProcessToken(c) ==
  /\ pc[c] = "tokens"
  /\ tokenIndex[c] <= Len(tokens[c])
  /\ LET st == TokenStep(Locals(c), tokens[c][tokenIndex[c]])
         added == Len(st.children) - Len(children[Scope(c)])
     IN /\ SetLocals(c, st)
        /\ childSrc' = [childSrc EXCEPT ![c] = @ \o [k \in 1..added |-> tokenIndex[c]]]
  /\ tokenIndex' = [tokenIndex EXCEPT ![c] = @ + 1]
  /\ UNCHANGED <<ownOptions, sections, pc, sectionIndex, allChildren, tokens, lexed, allSrc,
                 numberingConfigs, raised, result, text, fmtDone, runs>>

\* After the token loop: the section's blocks join the document, then the
\* spacer between sections.
EndSection(c) ==
  /\ pc[c] = "tokens"
  /\ tokenIndex[c] > Len(tokens[c])
  /\ LET sep == SeparatorAfter(sectionIndex[c], Len(sections[c]))
         fromSec == [k \in 1..Len(childSrc[c]) |-> <<sectionIndex[c], childSrc[c][k]>>]
         sepSrc == <<sectionIndex[c], Len(tokens[c]) + 1>>
     IN /\ allChildren' = [allChildren EXCEPT ![c] =
                             IF sep
                             THEN Push(Push(@, children[Scope(c)]), <<SectionSpacer>>)
                             ELSE Push(@, children[Scope(c)])]
        /\ allSrc' = [allSrc EXCEPT ![c] =
                        IF sep THEN Push(Push(@, fromSec), <<sepSrc>>)
                        ELSE Push(@, fromSec)]
  /\ sectionIndex' = [sectionIndex EXCEPT ![c] = @ + 1]
  /\ pc' = [pc EXCEPT ![c] = "section"]
  /\ UNCHANGED <<ownOptions, sections, tokens, tokenIndex, children, lastTokenType,
                 consecutiveBreaks, listCounter, lexed, childSrc, numberingConfigs,
                 raised, result, text, fmtDone, runs>>

\* After the section loop: the numbering set and the document are built and
\* Packer.toBuffer is called.
BuildDocument(c) ==
  /\ pc[c] = "section"
  /\ sectionIndex[c] = Len(sections[c])
  /\ numberingConfigs' = [numberingConfigs EXCEPT ![c] =
                            [i \in 1..PoolSize |-> NumberingRef(i - 1)]]
  /\ pc' = [pc EXCEPT ![c] = "awaiting"]
  /\ UNCHANGED <<ownOptions, sections, sectionIndex, allChildren, tokens, tokenIndex, children,
                 lastTokenType, consecutiveBreaks, listCounter, lexed, childSrc,
                 allSrc, raised, result, text, fmtDone, runs>>

\* The awaited promise resolves: the buffer is returned.
RenderResolves(c) ==
  /\ pc[c] = "awaiting"
  /\ result' = [result EXCEPT ![c] = Pack(allChildren[c], numberingConfigs[c])]
  /\ pc' = [pc EXCEPT ![c] = "returned"]
  /\ UNCHANGED <<ownOptions, sections, sectionIndex, allChildren, tokens, tokenIndex, children,
                 lastTokenType, consecutiveBreaks, listCounter, lexed, childSrc,
                 allSrc, numberingConfigs, raised, text, fmtDone, runs>>

\* The awaited promise rejects: the catch clause rethrows.
RenderRejects(c) ==
  /\ pc[c] = "awaiting"
  /\ Throw(c, <<"renderer">>)
  /\ UNCHANGED <<ownOptions, sections, sectionIndex, allChildren, tokens, tokenIndex, children,
                 lastTokenType, consecutiveBreaks, listCounter, lexed, childSrc,
                 allSrc, numberingConfigs, text, fmtDone, runs>>

(***************************************************************************)
(* Inputs.                                                                 *)
(***************************************************************************)
Txt == <<"a">>

\* section texts: empty, whitespace-only, and text with a leading newline
SectionTexts == {<<>>, <<"\r", "\n">>, <<"\n", "x">>}

SectionSeqs(n) == SeqsUpTo(SectionTexts, n) \ {<<>>}

\* tokens of the document-level specification
TokenPool ==
  {ParagraphToken(Txt), SpaceToken, HtmlToken,
   ListToken(TRUE, <<ListItemToken(Txt)>>), ListToken(FALSE, <<ListItemToken(Txt)>>)}

InitCalls(C, secs) ==
  /\ sections \in [C -> secs]
  /\ pc = [c \in C |-> "section"]
  /\ sectionIndex = [c \in C |-> 0]
  /\ allChildren = [c \in C |-> <<>>]
  /\ tokens = [c \in C |-> <<>>]
  /\ tokenIndex = [c \in C |-> 1]
  /\ children = [c \in C |-> <<>>]
  /\ lastTokenType = [c \in C |-> Null]
  /\ consecutiveBreaks = [c \in C |-> 0]
  /\ listCounter = [c \in C |-> 0]
  /\ lexed = [c \in C |-> <<>>]
  /\ childSrc = [c \in C |-> <<>>]
  /\ allSrc = [c \in C |-> <<>>]
  /\ numberingConfigs = [c \in C |-> <<>>]
  /\ raised = [c \in C |-> NoError]
  /\ result = [c \in C |-> NoResult]

\* The build of a specification whose tokens hold no code token: the own
\* properties of a TextRun object are never read, and one build stands for
\* both.
AnyBuild == ownOptions = FALSE

\* The two builds the own properties of a TextRun object tell apart.
EitherBuild == ownOptions \in BOOLEAN

\* no text is being formatted on its own
FmtIdle == text = <<>> /\ fmtDone = FALSE /\ runs = <<>>

(***************************************************************************)
(* Spec: one invocation on a document of up to MaxSections sections.       *)
(***************************************************************************)
Init == InitCalls({1}, SectionSeqs(MaxSections)) /\ FmtIdle /\ AnyBuild

Next ==
  \/ SkipEmptySection(1)
  \/ LexSection(1, TokenPool, MaxDocTokens)
  \/ LexThrows(1)
  \/ ProcessToken(1)
  \/ EndSection(1)
  \/ BuildDocument(1)
  \/ RenderResolves(1)
  \/ RenderRejects(1)

Spec == Init /\ [][Next]_vars

(***************************************************************************)
(* SpecConc: two invocations on independent inputs, their steps            *)
(* interleaved in every way.                                               *)
(***************************************************************************)
\* the documents of the two invocations: one section, two sections, and two
\* sections around an empty one
ConcDocs == {<<<<"x">>>>, <<<<"x">>, <<"x">>>>, <<<<"x">>, <<>>, <<"x">>>>}

ConcPool == {ListToken(TRUE, <<ListItemToken(Txt)>>), ParagraphToken(Txt)}

InitConc ==
  InitCalls({1, 2}, ConcDocs) /\ FmtIdle /\ AnyBuild

NextConc ==
  \E c \in {1, 2} :
    \/ SkipEmptySection(c)
    \/ LexSection(c, ConcPool, MaxConcTokens)
    \/ LexThrows(c)
    \/ ProcessToken(c)
    \/ EndSection(c)
    \/ BuildDocument(c)
    \/ RenderResolves(c)
    \/ RenderRejects(c)

SpecConc == InitConc /\ [][NextConc]_vars

(***************************************************************************)
(* SpecFmt: processFormattedText applied to one block text.                *)
(***************************************************************************)
FmtAlphabet == {Star, Tick, "a", "\n", LS}

\* the paragraph text **bold***italic*`code`
Example ==
  <<Star, Star, "b", "o", "l", "d", Star, Star, Star, "i", "t", "a", "l", "i", "c",
    Star, Tick, "c", "o", "d", "e", Tick>>

FmtTexts == SeqsUpTo(FmtAlphabet, MaxTextLen) \cup {Example}

InitFmt ==
  /\ InitCalls({}, {<<>>})
  /\ AnyBuild
  /\ text \in FmtTexts
  /\ fmtDone = FALSE
  /\ runs = <<>>

Format ==
  /\ ~fmtDone
  /\ runs' = processFormattedText(text)
  /\ fmtDone' = TRUE
  /\ UNCHANGED <<ownOptions, sections, pc, sectionIndex, allChildren, tokens, tokenIndex, children,
                 lastTokenType, consecutiveBreaks, listCounter, lexed, childSrc, allSrc,
                 numberingConfigs, raised, result, text>>

NextFmt == Format

SpecFmt == InitFmt /\ [][NextFmt]_vars

(***************************************************************************)
(* The document a complete run assembles from the sections and from what   *)
(* the tokenizer returned for the non-blank ones (lex, in section order).  *)
(***************************************************************************)
RECURSIVE Assemble(_, _, _)
Assemble(secs, idx, lex) ==
  IF idx >= Len(secs) THEN <<>>
  ELSE IF IsBlank(secs[idx + 1])
  THEN (IF EmptySectionSpacer(idx) THEN <<SectionSpacer>> ELSE <<>>)
       \o Assemble(secs, idx + 1, lex)
  ELSE TranslateSection(Head(lex).tokens)
       \o (IF SeparatorAfter(idx, Len(secs)) THEN <<SectionSpacer>> ELSE <<>>)
       \o Assemble(secs, idx + 1, Tail(lex))

(***************************************************************************)
(* Vocabulary of the properties.                                           *)
(***************************************************************************)
Calls == DOMAIN pc

\* the section loop of invocation c has run to its end
SectionsDone(c) == sectionIndex[c] = Len(sections[c]) /\ pc[c] # "thrown"

\* the token loop of the current section of c has run to its end
TokensDone(c) == pc[c] = "tokens" /\ tokenIndex[c] > Len(tokens[c])

IsOrderedItem(b) == b.kind = "ListItem" /\ b.numbering # NoRef

IsSpacer(b) == b.kind = "Spacer"

IsSectionSpacer(b) == b = SectionSpacer

IsSpace(tok) == tok.type = "space"

\* first positions of the maximal runs of blank tokens among toks[1..n]
BlankRunStarts(toks, n) ==
  {i \in 1..n : IsSpace(toks[i]) /\ (i = 1 \/ ~IsSpace(toks[i - 1]))}

\* positions of the section's blocks that are Spacers
SpacerPositions(c) == {k \in 1..Len(children[c]) : IsSpacer(children[c][k])}

(***************************************************************************)
(* C1: any two distinct ordered-list tokens of a document, in the same     *)
(* section or in different sections, carry different numbering references. *)
(* The code restarts listCounter in every section, so this fails.          *)
(***************************************************************************)
C1_DistinctListRefs ==
  \A c \in Calls :
    \A p, q \in 1..Len(allChildren[c]) :
      (/\ IsOrderedItem(allChildren[c][p])
       /\ IsOrderedItem(allChildren[c][q])
       /\ allSrc[c][p] # allSrc[c][q])
      => allChildren[c][p].numbering # allChildren[c][q].numbering

(***************************************************************************)
(* C2 as stated: when a section's token loop ends, the section holds       *)
(* exactly one Spacer per maximal run of blank tokens, wherever the run    *)
(* sits, the very start of the section included.                           *)
(***************************************************************************)
C2_OneSpacerPerBlankRun ==
  \A c \in Calls :
    TokensDone(c) =>
      Cardinality(SpacerPositions(c))
        = Cardinality(BlankRunStarts(tokens[c], Len(tokens[c])))

(***************************************************************************)
(* C2 amended: at every point of the token loop, the Spacers of the        *)
(* section are exactly one per maximal run of blank tokens that follows a  *)
(* non-blank token, emitted at the run's first token whatever the run's    *)
(* length; a run at the very start of the section emits none.              *)
(***************************************************************************)
C2_OneSpacerPerInnerBlankRun ==
  \A c \in Calls :
    pc[c] = "tokens" =>
      LET inner == BlankRunStarts(tokens[c], tokenIndex[c] - 1) \ {1}
      IN /\ {childSrc[c][k] : k \in SpacerPositions(c)} = inner
         /\ Cardinality(SpacerPositions(c)) = Cardinality(inner)

C2_Witness ==
  \E c \in Calls :
    /\ TokensDone(c)
    /\ \E i \in 2..(Len(tokens[c]) - 1) :
         /\ ~IsSpace(tokens[c][i - 1])
         /\ IsSpace(tokens[c][i])
         /\ IsSpace(tokens[c][i + 1])
    /\ Cardinality(SpacerPositions(c)) = 1

\* positions of the document's blocks that are section spacers
SectionSpacerPositions(c) ==
  {p \in 1..Len(allChildren[c]) : IsSectionSpacer(allChildren[c][p])}

\* positions of the document's blocks that come from section idx
FromSection(c, idx) == {p \in 1..Len(allSrc[c]) : allSrc[c][p][1] = idx}

FirstAndLastNonEmpty(c) ==
  ~IsBlank(sections[c][1]) /\ ~IsBlank(sections[c][Len(sections[c])])

(***************************************************************************)
(* C3: when the first and the last section are non-empty, a document with  *)
(* k break markers (k + 1 sections) holds exactly k section spacers, each  *)
(* after every block of the sections up to its own and before every block  *)
(* of the later ones; with k = 0 the document is exactly the blocks of its *)
(* one section.                                                            *)
(***************************************************************************)
C3_SpacersEqualMarkers ==
  \A c \in Calls :
    (SectionsDone(c) /\ FirstAndLastNonEmpty(c)) =>
      LET k == Len(sections[c]) - 1
      IN /\ Cardinality(SectionSpacerPositions(c)) = k
         /\ \A p \in SectionSpacerPositions(c) :
              \A q \in 1..Len(allSrc[c]) :
                /\ q < p => allSrc[c][q][1] <= allSrc[c][p][1]
                /\ q > p => allSrc[c][q][1] > allSrc[c][p][1]
         /\ k = 0 => allChildren[c] = TranslateSection(lexed[c][1].tokens)

C3_Witness ==
  \E c \in Calls :
    /\ SectionsDone(c)
    /\ Len(sections[c]) = 3
    /\ FirstAndLastNonEmpty(c)
    /\ IsBlank(sections[c][2])
    /\ Cardinality(SectionSpacerPositions(c)) = 2
    /\ \E p \in 1..Len(allChildren[c]) : ~IsSpacer(allChildren[c][p])

(***************************************************************************)
(* C4: in the assembled document a section spacer is never the first block *)
(* and never the last block.  The code puts one first after two leading    *)
(* empty sections and one last when the input ends with the marker.        *)
(***************************************************************************)
C4_NoSpacerAtEnds ==
  \A c \in Calls :
    (SectionsDone(c) /\ allChildren[c] # <<>>) =>
      /\ ~IsSectionSpacer(allChildren[c][1])
      /\ ~IsSectionSpacer(allChildren[c][Len(allChildren[c])])

(***************************************************************************)
(* C5: an empty or whitespace-only section that has been passed is never   *)
(* given to the tokenizer; at ordinal > 0 it contributes exactly one block *)
(* to the document, a section spacer, and at ordinal 0 it contributes none.*)
(***************************************************************************)
C5_EmptySections ==
  \A c \in Calls :
    \A idx \in 0..(sectionIndex[c] - 1) :
      IsBlank(sections[c][idx + 1]) =>
        /\ \A k \in 1..Len(lexed[c]) : lexed[c][k].section # idx
        /\ IF idx > 0
           THEN /\ Cardinality(FromSection(c, idx)) = 1
                /\ \A p \in FromSection(c, idx) : IsSectionSpacer(allChildren[c][p])
           ELSE FromSection(c, idx) = {}

C5_Witness ==
  \E c \in Calls :
    /\ sectionIndex[c] >= 2
    /\ IsBlank(sections[c][1])
    /\ sections[c][2] = <<"\r", "\n">>
    /\ allChildren[c] = <<SectionSpacer>>

IsUnrecognized(tok) == tok.type \notin HandledTypes

\* positions of the section's blocks that come from token i
FromToken(c, i) == {k \in 1..Len(childSrc[c]) : childSrc[c][k] = i}

(***************************************************************************)
(* C6 as stated: the blocks of a token sequence that holds tokens of       *)
(* unrecognized kinds are the blocks of the sequence without them.         *)
(***************************************************************************)
C6_UnrecognizedAsIfAbsent ==
  \A c \in Calls :
    TokensDone(c) =>
      children[c]
        = TranslateSection(SelectSeq(tokens[c], LAMBDA tok : ~IsUnrecognized(tok)))

(***************************************************************************)
(* C6 amended: a token of an unrecognized kind never aborts the conversion *)
(* and emits no block itself; right after it the blank-run counter is 0    *)
(* and it is the last token type; every paragraph and list token processed *)
(* so far, those after it included, has its blocks in the section.         *)
(***************************************************************************)
C6_UnrecognizedEmitsNothing ==
  \A c \in Calls :
    pc[c] = "tokens" =>
      /\ raised[c] = NoError
      /\ \A i \in 1..(tokenIndex[c] - 1) :
           /\ IsUnrecognized(tokens[c][i]) => FromToken(c, i) = {}
           /\ tokens[c][i].type = "paragraph" => Cardinality(FromToken(c, i)) = 1
           /\ tokens[c][i].type = "list"
                => Cardinality(FromToken(c, i)) = Len(tokens[c][i].items)
      /\ (tokenIndex[c] > 1 /\ IsUnrecognized(tokens[c][tokenIndex[c] - 1])) =>
           /\ consecutiveBreaks[c] = 0
           /\ lastTokenType[c] = LastType(tokens[c][tokenIndex[c] - 1].type)

C6_Witness ==
  \E c \in Calls :
    /\ TokensDone(c)
    /\ tokens[c] = <<ParagraphToken(Txt), HtmlToken, ParagraphToken(Txt)>>
    /\ children[c] = <<TextBlock(ParagraphToken(Txt)), TextBlock(ParagraphToken(Txt))>>

(***************************************************************************)
(* C7: an invocation in which the tokenizer or the renderer raised has     *)
(* thrown exactly that error; an invocation that returned a buffer had no  *)
(* failure, called the tokenizer once for every non-empty section, in      *)
(* order, and the buffer holds the complete document; nothing happens      *)
(* after the throw or the return (no retry).                               *)
(***************************************************************************)
C7_State ==
  \A c \in Calls :
    /\ raised[c] # NoError =>
         /\ pc[c] = "thrown"
         /\ result[c] = [status |-> "error", value |-> raised[c]]
    /\ pc[c] = "thrown" => raised[c] # NoError
    /\ result[c].status = "buffer" =>
         /\ raised[c] = NoError
         /\ pc[c] = "returned"
         /\ Len(lexed[c])
              = Cardinality({k \in 1..Len(sections[c]) : ~IsBlank(sections[c][k])})
         /\ result[c].value.children = Assemble(sections[c], 0, lexed[c])
    /\ \A k \in 1..(Len(lexed[c]) - 1) : lexed[c][k].section < lexed[c][k + 1].section

C7_Step ==
  \A c \in Calls :
    pc[c] \in {"thrown", "returned"} =>
      /\ pc'[c] = pc[c]
      /\ result'[c] = result[c]
      /\ lexed'[c] = lexed[c]

C7_FailsOrComplete == []C7_State /\ [][C7_Step]_vars

C7_Witness ==
  \E c \in Calls :
    /\ pc[c] = "thrown"
    /\ raised[c] = <<"lexer", 1>>
    /\ result[c].status = "error"
    /\ \E p \in 1..Len(allChildren[c]) : ~IsSpacer(allChildren[c][p])

(***************************************************************************)
(* C9: the document's blocks are in section order and, within a section,   *)
(* in token order; when the sections are done every non-empty section has  *)
(* been tokenized and its blocks stand in the document as translated; no   *)
(* step removes or moves a block already appended.                         *)
(***************************************************************************)
SrcLeq(a, b) == a[1] < b[1] \/ (a[1] = b[1] /\ a[2] <= b[2])

\* the blocks of the document that come from the tokens of section idx
SectionBlocks(c, idx) ==
  LET RECURSIVE Pick(_)
      Pick(p) ==
        IF p > Len(allChildren[c]) THEN <<>>
        ELSE IF allSrc[c][p][1] = idx /\ ~IsSectionSpacer(allChildren[c][p])
        THEN <<allChildren[c][p]>> \o Pick(p + 1)
        ELSE Pick(p + 1)
  IN Pick(1)

C9_State ==
  \A c \in Calls :
    /\ \A p \in 1..(Len(allSrc[c]) - 1) : SrcLeq(allSrc[c][p], allSrc[c][p + 1])
    /\ \A k \in 1..(Len(childSrc[c]) - 1) : childSrc[c][k] <= childSrc[c][k + 1]
    /\ Len(allSrc[c]) = Len(allChildren[c])
    /\ SectionsDone(c) =>
         \A k \in 1..Len(sections[c]) :
           ~IsBlank(sections[c][k]) =>
             \E e \in 1..Len(lexed[c]) :
               /\ lexed[c][e].section = k - 1
               /\ SectionBlocks(c, k - 1) = TranslateSection(lexed[c][e].tokens)

C9_Step ==
  \A c \in Calls :
    /\ IsPrefix(allChildren[c], allChildren'[c])
    /\ (pc[c] = "tokens" /\ pc'[c] = "tokens") => IsPrefix(children[c], children'[c])

C9_OrderKept == []C9_State /\ [][C9_Step]_vars

C9_Witness ==
  \E c \in Calls :
    /\ SectionsDone(c)
    /\ Len(lexed[c]) = 2
    /\ Len(SectionBlocks(c, lexed[c][1].section)) >= 2
    /\ Len(SectionBlocks(c, lexed[c][2].section)) >= 1

(***************************************************************************)
(* C8: with two invocations interleaved, the document each has assembled   *)
(* when its sections are done, and the buffer it returns, are those of the *)
(* invocation run alone on its own sections and tokens: blocks, numbering  *)
(* references and numbering set.                                           *)
(***************************************************************************)
C8_AsIfAlone ==
  \A c \in Calls :
    /\ SectionsDone(c) => allChildren[c] = Assemble(sections[c], 0, lexed[c])
    /\ pc[c] = "returned" =>
         result[c] = Pack(Assemble(sections[c], 0, lexed[c]),
                          [i \in 1..PoolSize |-> NumberingRef(i - 1)])

C8_Witness ==
  /\ Calls = {1, 2}
  /\ pc[1] = "awaiting"
  /\ \E p \in 1..Len(allChildren[1]) : allChildren[1][p].numbering = NumberingRef(1)
  /\ pc[2] = "tokens"
  /\ tokenIndex[2] = 2
  /\ listCounter[2] = 1

(***************************************************************************)
(* C10: processFormattedText returns no run with zero-length text other    *)
(* than the line breaks, and the text **bold***italic*`code` gives exactly *)
(* a bold, an italic and a monospace run, in that order.  The code returns *)
(* a run with empty text for a span with nothing between its delimiters.   *)
(***************************************************************************)
C10_NoEmptyRuns ==
  fmtDone =>
    /\ \A k \in 1..Len(runs) : runs[k].break = 0 => runs[k].text # <<>>
    /\ text = Example =>
         runs = <<TextRun(<<"b", "o", "l", "d">>, TRUE, FALSE, "New Times Roman", 24, 0),
                  TextRun(<<"i", "t", "a", "l", "i", "c">>, FALSE, TRUE,
                          "New Times Roman", 24, 0),
                  TextRun(<<"c", "o", "d", "e">>, FALSE, FALSE, "Courier New", 24, 0)>>

\* the characters of s are neither delimiters nor line ends
IsPlainText(s) == \A k \in 1..Len(s) : s[k] \notin {Star, Tick, "\n"}

\* one line holding a single opening delimiter that nothing closes
HasUnterminatedDelimiter(t) ==
  \E i \in 1..Len(t) :
    \E open \in {<<Star, Star>>, <<Star>>, <<Tick>>} :
      /\ IsPlainText(SubSeq(t, 1, i - 1))
      /\ SubSeq(t, i, i + Len(open) - 1) = open
      /\ IsPlainText(SubSeq(t, i + Len(open), Len(t)))

RECURSIVE ConcatTexts(_)
ConcatTexts(rs) == IF rs = <<>> THEN <<>> ELSE Head(rs).text \o ConcatTexts(Tail(rs))

IsPlainRun(r) == ~r.bold /\ ~r.italics /\ r.font # "Courier New"

(***************************************************************************)
(* C11: for a line with an unterminated delimiter the runs are plain and   *)
(* their texts, concatenated, are the line, delimiter characters included. *)
(* The code turns an unclosed ** into a bold run with empty text and drops *)
(* the two characters.                                                     *)
(***************************************************************************)
C11_MalformedStaysPlain ==
  (fmtDone /\ HasUnterminatedDelimiter(text)) =>
    /\ ConcatTexts(runs) = text
    /\ \A k \in 1..Len(runs) : IsPlainRun(runs[k])

(***************************************************************************)
(* SpecTok: one invocation on a one-section document whose tokens are      *)
(* drawn from every kind the switch handles, with lists of several items,  *)
(* blockquotes with nested tokens and tables; or whose only token is a     *)
(* paragraph with any text of up to MaxTextLen characters.                 *)
(***************************************************************************)
MaxTokTokens == 2     \* tokens of the section in SpecTok

TxtB == <<"b">>
TxtC == <<"c">>

Items2 == <<ListItemToken(Txt), ListItemToken(TxtB)>>
Items3 == <<ListItemToken(Txt), ListItemToken(TxtB), ListItemToken(TxtC)>>

Cells2 == <<TableCellToken(Txt), TableCellToken(TxtB)>>
Cells2Rev == <<TableCellToken(TxtB), TableCellToken(Txt)>>

RichPool ==
  {HeadingToken(1, Txt), HeadingToken(3, TxtB),
   ParagraphToken(Txt), CodeToken(Txt), HrToken, SpaceToken, HtmlToken,
   ListToken(TRUE, <<ListItemToken(Txt)>>), ListToken(TRUE, Items3),
   ListToken(FALSE, Items2), ListToken(FALSE, Items3),
   BlockquoteToken(<<ParagraphToken(Txt)>>),
   BlockquoteToken(<<ParagraphToken(Txt), ParagraphToken(TxtB)>>),
   BlockquoteToken(<<HeadingToken(2, TxtC), ParagraphToken(TxtB), SpaceToken,
                     ListToken(FALSE, Items2), ParagraphToken(Txt)>>),
   BlockquoteToken(<<HeadingToken(2, TxtC)>>),
   BlockquoteToken(<<>>),
   TableToken(Cells2, <<Cells2Rev, Cells2>>),
   TableToken(<<TableCellToken(Txt)>>, <<>>),
   TableToken(Cells2, <<Cells2, <<TableCellToken(TxtC)>>>>)}

ParagraphTexts == SeqsUpTo({"a", Star, "\n"}, MaxTextLen)

TokSeqs ==
  SeqsUpTo(RichPool, MaxTokTokens) \cup {<<ParagraphToken(t)>> : t \in ParagraphTexts}

InitTok == InitCalls({1}, {<<<<"x">>>>}) /\ FmtIdle /\ EitherBuild

NextTok ==
  \/ LexSectionFrom(1, TokSeqs)
  \/ ProcessToken(1)
  \/ EndSection(1)
  \/ BuildDocument(1)
  \/ RenderResolves(1)

SpecTok == InitTok /\ [][NextTok]_vars

\* tokens of the current section of c that the token loop has processed
Processed(c) == IF pc[c] = "tokens" THEN 1..(tokenIndex[c] - 1) ELSE {}

\* the blocks token i of the current section has emitted, in emission order
BlocksOf(c, i) ==
  LET ks == FromToken(c, i)
  IN IF ks = {} THEN <<>>
     ELSE SubSeq(children[c],
                 CHOOSE a \in ks : \A k \in ks : a <= k,
                 CHOOSE b \in ks : \A k \in ks : k <= b)

IsList(tok) == tok.type = "list"

(***************************************************************************)
(* C12 as stated: in every processed list of at least two items, the       *)
(* leading (before) spacing of the first item is strictly smaller than     *)
(* that of every later item of the list.                                   *)
(***************************************************************************)
C12_FirstItemSmaller ==
  \A c \in Calls :
    \A i \in Processed(c) :
      (IsList(tokens[c][i]) /\ Len(tokens[c][i].items) >= 2) =>
        LET b == BlocksOf(c, i)
        IN \A k \in 2..Len(b) : b[1].before < b[k].before

(***************************************************************************)
(* C12 amended: in every processed list of at least two items, the leading *)
(* spacing of the first item is 80 and that of every later item is 40: the *)
(* first item's is strictly larger, not smaller.                           *)
(***************************************************************************)
C12_FirstItemLarger ==
  \A c \in Calls :
    \A i \in Processed(c) :
      (IsList(tokens[c][i]) /\ Len(tokens[c][i].items) >= 2) =>
        LET b == BlocksOf(c, i)
        IN /\ Len(b) >= 2
           /\ b[1].before = 80
           /\ \A k \in 2..Len(b) : b[k].before = 40 /\ b[1].before > b[k].before

C12_Witness ==
  \E c \in Calls :
    \E i \in Processed(c) :
      /\ IsList(tokens[c][i])
      /\ Len(tokens[c][i].items) = 3
      /\ Len(BlocksOf(c, i)) = 3
      /\ BlocksOf(c, i)[3].before = 40

IsOrderedList(tok) == IsList(tok) /\ tok.ordered

\* ordered lists among the first n tokens of the current section of c
OrderedListsBefore(c, n) ==
  Cardinality({j \in 1..n : IsOrderedList(tokens[c][j])})

(***************************************************************************)
(* C13: a processed list token has emitted exactly one ListItem per item,  *)
(* in item order.  All items of an ordered list carry one and the same     *)
(* numbering reference, the one made from the list counter's value before  *)
(* the list, and processing the list raises the counter by exactly 1; no   *)
(* item of an unordered list carries a numbering reference, and processing *)
(* the list leaves the counter unchanged.                                  *)
(***************************************************************************)
C13_State ==
  \A c \in Calls :
    /\ pc[c] = "tokens" =>
         listCounter[c] = OrderedListsBefore(c, tokenIndex[c] - 1)
    /\ \A i \in Processed(c) :
         IsList(tokens[c][i]) =>
           LET tok == tokens[c][i]
               b == BlocksOf(c, i)
           IN /\ Len(b) = Len(tok.items)
              /\ \A k \in 1..Len(b) :
                   /\ b[k].kind = "ListItem"
                   /\ b[k].children = processFormattedText(tok.items[k].text)
                   /\ tok.ordered =>
                        /\ b[k].numbering # NoRef
                        /\ b[k].numbering = b[1].numbering
                        /\ b[k].numbering = NumberingRef(OrderedListsBefore(c, i - 1))
                        /\ ~b[k].bullet
                   /\ ~tok.ordered => b[k].numbering = NoRef /\ b[k].bullet

C13_Step ==
  \A c \in Calls :
    (/\ pc[c] = "tokens"
     /\ tokenIndex[c] <= Len(tokens[c])
     /\ tokenIndex'[c] = tokenIndex[c] + 1
     /\ IsList(tokens[c][tokenIndex[c]])) =>
      /\ Len(children'[c]) = Len(children[c]) + Len(tokens[c][tokenIndex[c]].items)
      /\ listCounter'[c] =
           IF tokens[c][tokenIndex[c]].ordered THEN listCounter[c] + 1
           ELSE listCounter[c]

C13_OneItemPerEntry == []C13_State /\ [][C13_Step]_vars

C13_Witness ==
  \E c \in Calls :
    /\ TokensDone(c)
    /\ Len(tokens[c]) = 2
    /\ IsList(tokens[c][1]) /\ ~tokens[c][1].ordered
    /\ IsOrderedList(tokens[c][2])
    /\ Len(tokens[c][2].items) = 3
    /\ Len(BlocksOf(c, 2)) = 3
    /\ BlocksOf(c, 2)[3].numbering = NumberingRef(0)
    /\ listCounter[c] = 1

IsBlockquote(tok) == tok.type = "blockquote"

\* the nested tokens of a blockquote that are paragraphs, in nested order
NestedParagraphs(tok) ==
  LET RECURSIVE Pick(_)
      Pick(k) ==
        IF k > Len(tok.tokens) THEN <<>>
        ELSE IF tok.tokens[k].type = "paragraph"
        THEN <<tok.tokens[k]>> \o Pick(k + 1)
        ELSE Pick(k + 1)
  IN Pick(1)

(***************************************************************************)
(* C14: a processed blockquote token has emitted exactly one Quote block   *)
(* per nested paragraph token, in nested order, and nothing for a nested   *)
(* token of another kind; with no nested paragraph it has emitted no       *)
(* block.  Processing it never fails, and right after it the blank-run     *)
(* counter is 0 and the last token type is blockquote.                     *)
(***************************************************************************)
C14_State ==
  \A c \in Calls :
    /\ \A i \in Processed(c) :
         IsBlockquote(tokens[c][i]) =>
           LET paras == NestedParagraphs(tokens[c][i])
               b == BlocksOf(c, i)
           IN /\ Len(b) = Len(paras)
              /\ \A k \in 1..Len(b) :
                   /\ b[k].kind = "Quote"
                   /\ b[k].children = processFormattedText(paras[k].text)
    /\ (/\ pc[c] = "tokens"
        /\ tokenIndex[c] > 1
        /\ IsBlockquote(tokens[c][tokenIndex[c] - 1])) =>
         /\ consecutiveBreaks[c] = 0
         /\ lastTokenType[c] = LastType("blockquote")

C14_Step ==
  \A c \in Calls :
    (/\ pc[c] = "tokens"
     /\ tokenIndex[c] <= Len(tokens[c])
     /\ IsBlockquote(tokens[c][tokenIndex[c]])) =>
      /\ pc'[c] = "tokens"
      /\ raised'[c] = raised[c]
      /\ tokenIndex'[c] = tokenIndex[c] + 1
      /\ Len(children'[c]) =
           Len(children[c]) + Len(NestedParagraphs(tokens[c][tokenIndex[c]]))

C14_QuotePerNestedParagraph == []C14_State /\ [][C14_Step]_vars

C14_Witness ==
  \E c \in Calls :
    /\ TokensDone(c)
    /\ Len(tokens[c]) = 2
    /\ IsBlockquote(tokens[c][1])
    /\ Len(tokens[c][1].tokens) = 5
    /\ Len(BlocksOf(c, 1)) = 2
    /\ IsBlockquote(tokens[c][2])
    /\ NestedParagraphs(tokens[c][2]) = <<>>
    /\ tokens[c][2].tokens # <<>>
    /\ BlocksOf(c, 2) = <<>>
    /\ Len(children[c]) = 2

\* the next token of c is a blank token reached from a token of another type:
\* the transition rule is about to count it and to test its guard
GuardIsTested(c) ==
  /\ pc[c] = "tokens"
  /\ tokenIndex[c] <= Len(tokens[c])
  /\ IsSpace(tokens[c][tokenIndex[c]])
  /\ lastTokenType[c] # Null
  /\ lastTokenType[c] # LastType("space")

(***************************************************************************)
(* C15: the blank-run counter consecutiveBreaks is 0 or 1 in every state,  *)
(* and it is 0 right after a non-blank token, handled by the switch or     *)
(* not, has been processed.  Hence whenever the transition rule counts a   *)
(* blank token the counter was 0, the guard consecutiveBreaks <= 1 holds   *)
(* and a Spacer is emitted: the guard never suppresses one.                *)
(***************************************************************************)
C15_State ==
  \A c \in Calls :
    /\ consecutiveBreaks[c] \in {0, 1}
    /\ (/\ pc[c] = "tokens"
        /\ tokenIndex[c] > 1
        /\ ~IsSpace(tokens[c][tokenIndex[c] - 1])) => consecutiveBreaks[c] = 0
    /\ GuardIsTested(c) => consecutiveBreaks[c] = 0

C15_Step ==
  \A c \in Calls :
    (GuardIsTested(c) /\ tokenIndex'[c] = tokenIndex[c] + 1) =>
      /\ consecutiveBreaks'[c] = 1
      /\ children'[c] = Append(children[c], BlankSpacer)

C15_GuardNeverSuppresses == []C15_State /\ [][C15_Step]_vars

C15_Witness ==
  \E c \in Calls :
    /\ TokensDone(c)
    /\ Len(tokens[c]) = 3
    /\ IsUnrecognized(tokens[c][1])
    /\ IsSpace(tokens[c][2])
    /\ IsSpace(tokens[c][3])
    /\ consecutiveBreaks[c] = 1
    /\ children[c] = <<BlankSpacer>>

(***************************************************************************)
(* SpecMany: one invocation on a one-section document that holds up to     *)
(* one more ordered list than the numbering set has references, each list  *)
(* followed by a paragraph.                                                *)
(***************************************************************************)
MaxLists == PoolSize + 1

RECURSIVE ListsAndParagraphs(_)
ListsAndParagraphs(n) ==
  IF n = 0 THEN <<>>
  ELSE ListsAndParagraphs(n - 1)
         \o <<ListToken(TRUE, <<ListItemToken(Txt)>>), ParagraphToken(Txt)>>

ManyLists == {ListsAndParagraphs(n) : n \in 1..MaxLists}

InitMany == InitCalls({1}, {<<<<"x">>>>}) /\ FmtIdle /\ AnyBuild

NextMany ==
  \/ LexSectionFrom(1, ManyLists)
  \/ ProcessToken(1)
  \/ EndSection(1)
  \/ BuildDocument(1)
  \/ RenderResolves(1)

SpecMany == InitMany /\ [][NextMany]_vars

\* the document of c has been built: its numbering set is attached
DocumentBuilt(c) == pc[c] \in {"awaiting", "returned"}

\* the references of the numbering set of the document of c
DefinedRefs(c) == {numberingConfigs[c][k] : k \in 1..Len(numberingConfigs[c])}

(***************************************************************************)
(* C16: once the document is built, the numbering reference of every       *)
(* ordered ListItem among its blocks is the reference of a definition of   *)
(* the document's numbering set, however many ordered lists a section      *)
(* holds.  The set holds the 100 references list-0 .. list-99, so the      *)
(* items of the 101st ordered list of a section carry list-100, which is   *)
(* not in it.                                                              *)
(***************************************************************************)
C16_RefsDefined ==
  \A c \in Calls :
    DocumentBuilt(c) =>
      \A p \in 1..Len(allChildren[c]) :
        IsOrderedItem(allChildren[c][p]) =>
          allChildren[c][p].numbering \in DefinedRefs(c)

IsParagraph(tok) == tok.type = "paragraph"

NewlinePositions(t) == {k \in 1..Len(t) : t[k] = "\n"}

BreakPositions(rs) == {k \in 1..Len(rs) : rs[k].break = 1}

\* the k-th smallest position of S; 0 for k = 0; len + 1 beyond the last one
Boundary(S, k, len) ==
  IF k = 0 THEN 0
  ELSE IF k > Cardinality(S) THEN len + 1
  ELSE CHOOSE x \in S : Cardinality({y \in S : y < x}) = k - 1

\* line k of text t, the lines being what the newlines of t separate
LineOf(t, k) ==
  LET nl == NewlinePositions(t)
  IN SubSeq(t, Boundary(nl, k - 1, Len(t)) + 1, Boundary(nl, k, Len(t)) - 1)

\* the runs of rs between its break k - 1 and its break k
RunsOfLine(rs, k) ==
  LET br == BreakPositions(rs)
  IN SubSeq(rs, Boundary(br, k - 1, Len(rs)) + 1, Boundary(br, k, Len(rs)) - 1)

(***************************************************************************)
(* C17: a processed paragraph token whose text holds n newlines has        *)
(* emitted exactly one block, whatever n.  The runs of the block hold      *)
(* exactly n break runs; the runs before the first break are those of      *)
(* line 1, the runs between break i and break i + 1 are those of line      *)
(* i + 1, and the runs after the last break are those of the last line,    *)
(* which no break follows.                                                 *)
(***************************************************************************)
C17_BreaksBetweenLines ==
  \A c \in Calls :
    \A i \in Processed(c) :
      IsParagraph(tokens[c][i]) =>
        LET t == tokens[c][i].text
            n == Cardinality(NewlinePositions(t))
            b == BlocksOf(c, i)
        IN /\ Len(b) = 1
           /\ b[1].kind = "TextBlock"
           /\ Cardinality(BreakPositions(b[1].children)) = n
           /\ \A k \in 1..(n + 1) :
                RunsOfLine(b[1].children, k) = LineRuns(LineOf(t, k))

C17_Witness ==
  \E c \in Calls :
    \E i \in Processed(c) :
      /\ IsParagraph(tokens[c][i])
      /\ tokens[c][i].text = <<"a", "\n", "\n", "a">>
      /\ Len(BlocksOf(c, i)) = 1
      /\ BreakPositions(BlocksOf(c, i)[1].children) = {2, 3}
      /\ Len(BlocksOf(c, i)[1].children) = 4

IsTable(tok) == tok.type = "table"

\* the kind of the one block a heading, paragraph, code or rule token emits
SingleBlockKind(tok) ==
  CASE tok.type = "heading" -> "Heading"
    [] tok.type = "paragraph" -> "TextBlock"
    [] tok.type = "code" -> "Code"
    [] tok.type = "hr" -> "Rule"

(***************************************************************************)
(* C18: a processed table token with c header cells and r body rows has    *)
(* emitted exactly one Table block: its first row is the header row with   *)
(* c cells, followed by r body rows in source order, each with as many     *)
(* cells as its source row and each cell holding the formatted text of its *)
(* source cell.  A processed heading, paragraph, code or rule token has    *)
(* emitted exactly one block, of its own kind.                             *)
(***************************************************************************)
C18_OneTablePerToken ==
  \A c \in Calls :
    \A i \in Processed(c) :
      LET tok == tokens[c][i]
          b == BlocksOf(c, i)
      IN /\ IsTable(tok) =>
              /\ Len(b) = 1
              /\ b[1].kind = "Table"
              /\ Len(b[1].children) = 1
              /\ LET rows == b[1].children[1].rows
                 IN /\ Len(rows) = 1 + Len(tok.rows)
                    /\ Len(rows[1]) = Len(tok.header)
                    /\ \A j \in 1..Len(tok.header) :
                         /\ rows[1][j].children = processFormattedText(tok.header[j].text)
                         /\ rows[1][j].shading = "EEEEEE"
                    /\ \A k \in 1..Len(tok.rows) :
                         /\ Len(rows[k + 1]) = Len(tok.rows[k])
                         /\ \A j \in 1..Len(tok.rows[k]) :
                              /\ rows[k + 1][j].children
                                   = processFormattedText(tok.rows[k][j].text)
                              /\ rows[k + 1][j].shading = ""
         /\ tok.type \in {"heading", "paragraph", "code", "hr"} =>
              /\ Len(b) = 1
              /\ b[1].kind = SingleBlockKind(tok)

C18_Witness ==
  \E c \in Calls :
    /\ TokensDone(c)
    /\ Len(tokens[c]) = 2
    /\ IsTable(tokens[c][1])
    /\ Len(tokens[c][1].header) = 2
    /\ Len(tokens[c][1].rows) = 2
    /\ Len(tokens[c][1].rows[2]) = 1
    /\ Len(BlocksOf(c, 1)[1].children[1].rows) = 3
    /\ tokens[c][2].type = "code"
    /\ Len(children[c]) = 2

====
